---------------------------- MODULE Spec2Model ----------------------------
(***************************************************************************)
(* Membership state machine of the Real-Time Event Check-In backend        *)
(* (backend/src: the GraphQL resolvers events, me, joinEvent, leaveEvent   *)
(* over a Prisma/PostgreSQL store, and the socket.io broadcasts they       *)
(* emit).                                                                  *)
(*                                                                         *)
(* Every resolver is an async function: it runs synchronously up to each   *)
(* `await prisma...`, the store executes the statement at some later       *)
(* moment, and the continuation runs after that.  One action of the model  *)
(* is one store round trip together with the synchronous code that         *)
(* prepares the next one; the socket.io emits after the last write are an  *)
(* action of their own, because they run in the continuation, after the    *)
(* write has committed, while other requests proceed.                      *)
(*                                                                         *)
(* Strings the code inspects (emails, names) are sequences of characters.  *)
(***************************************************************************)
EXTENDS Integers, Sequences, FiniteSets, Bags, TLC

\* Number of requests of a run whose requests overlap in any way (each
\* request slot is used once).
MaxCalls == 2

\* Number of requests of a run of one client that awaits each response
\* before it sends the next request.
MaxSeqCalls == 3

\* Number of concurrent requests that all name one (event, email) pair.
MaxPairCalls == 3

\* Number of mutations in flight while clients connect and subscribe.
MaxRtCalls == 1

\* Number of mutations sent one after the other while clients connect and
\* subscribe.
MaxRtSeqCalls == 2

\* The two client sockets of the realtime test (socket1, socket2).
NumClients == 2

-----------------------------------------------------------------------------
(* Values *)

EmptyStr == << >>

\* alice@example.com of the seed data, written short.
AliceEmail == <<"a", "@", "x">>
\* An address no seeded user has, with a non-alphanumeric local part.
BobEmail == <<"b", ".", "@", "x">>
\* A non-empty string without '@'.
\* An email whose local part has no letter or digit.
DotEmail == <<".", "@", "x">>

NoAtEmail == <<"n">>

\* Emails a client may send to me.
EmailArgs == {EmptyStr, AliceEmail, BobEmail, NoAtEmail}

\* Emails a client may send to joinEvent and leaveEvent.
UserEmailArgs == {EmptyStr, AliceEmail, BobEmail}

\* Event ids a client may send: empty, two stored ids, one id of no event.
EventIdArgs == {"", "e1", "e2", "zz"}

AlnumChars == {"a", "b", "n", "x", "A", "U", "s", "e", "r"}

NoUser == [id |-> 0, name |-> EmptyStr, email |-> EmptyStr]

NoEvent == [found |-> FALSE, id |-> "", attendees |-> {}]

NoResult == [ok |-> FALSE, error |-> "", attendees |-> {}, user |-> NoUser,
             list |-> << >>]

\* Error messages thrown by the resolvers.
InvalidInput == "Event ID and user email are required"
NotFound == "Event not found"
UserNotFound == "User not found"
InvalidEmail == "Valid email is required"
\* Prisma's P2002, thrown by user.create on a duplicate email.
\* What the catch block rethrows when an emit throws.
EmitFailed == "emit failed"

UniqueViolation == "Unique constraint failed on the fields: email"

\* io.emit without a room reaches every connected socket.
GlobalTopic == <<"*", "">>

EventRoom(eventId) == <<"event-", eventId>>

-----------------------------------------------------------------------------
VARIABLES
    users,      \* table User: set of rows [id, name, email]
    events,     \* table Event: set of rows [id, startTime]
    edges,      \* table _UserEvents: bag of rows <<event id, user id>>
    calls,      \* the requests: per slot, the arguments of the resolver and locals
    emitted,    \* every socket.io emit so far, in emission order
    sockets,    \* per client: whether its socket is connected, and its rooms
    screens     \* per client: the event detail screen, if open, and what it shows

vars == <<users, events, edges, calls, emitted, sockets, screens>>

Calls == DOMAIN calls

IdleCall == [op |-> "none", pc |-> "idle", eventId |-> "", email |-> EmptyStr,
             existingEvent |-> NoEvent, user |-> NoUser, event |-> NoEvent,
             wrote |-> "none", wroteAt |-> 0, ops |-> {}, result |-> NoResult]

NoSocket == [connected |-> FALSE, rooms |-> {}]

Clients == DOMAIN sockets

\* The sockets connected now.
Connected == {k \in Clients : sockets[k].connected}

\* An emit that ignores the room (io.emit for every message).
RecipientsEveryone(room) == Connected

\* The sockets an emit to `room` is written to: io.emit reaches every
\* connected socket, io.to(room).emit those that are in the room.
Recipients(room) ==
    IF room = GlobalTopic
    THEN Connected
    ELSE {k \in Connected : room \in sockets[k].rooms}

-----------------------------------------------------------------------------
(* The store *)

\* prisma.user.findUnique({ where: { email } })
FindUserByEmail(email) ==
    IF \E u \in users : u.email = email
    THEN CHOOSE u \in users : u.email = email
    ELSE NoUser

\* Rows of the join table for one event, joined with User (include: attendees).
Attendees(E, eventId) ==
    {u \in users : BagIn(<<eventId, u.id>>, E)}

\* A lookup that ignores the id it is given (findFirst without a where).
FindAnyEvent(eventId) ==
    [found |-> TRUE, id |-> eventId, attendees |-> Attendees(edges, eventId)]

\* prisma.event.findUnique({ where: { id }, include: { attendees: true } })
FindEvent(eventId) ==
    IF \E e \in events : e.id = eventId
    THEN [found |-> TRUE, id |-> eventId, attendees |-> Attendees(edges, eventId)]
    ELSE NoEvent

\* A User table with no unique index on email: every insert is accepted.
EmailAlwaysFree(email) == TRUE

\* The unique index on User.email: whether an insert of `email` is accepted.
EmailIsFree(email) == \A u \in users : u.email # email

\* A new row's id (cuid): an id no row has.
NewUserId == Cardinality(users) + 1

\* attendees: { connect: { id } } on the implicit many-to-many relation:
\* INSERT INTO _UserEvents ... ON CONFLICT DO NOTHING.
Connect(E, eventId, userId) ==
    IF BagIn(<<eventId, userId>>, E)
    THEN E
    ELSE E (+) SetToBag({<<eventId, userId>>})

\* A delete that forgets the user column: DELETE FROM _UserEvents WHERE A = ..
DisconnectEvent(E, eventId, userId) ==
    [r \in {q \in DOMAIN E : q[1] # eventId} |-> E[r]]

\* attendees: { disconnect: { id } }: DELETE FROM _UserEvents WHERE A = .. AND B = ..
Disconnect(E, eventId, userId) ==
    [r \in (DOMAIN E) \ {<<eventId, userId>>} |-> E[r]]

-----------------------------------------------------------------------------
(* Pure helpers of the resolvers *)

\* Index of the first '@' of s, or 0.
RECURSIVE AtIndex(_, _)
AtIndex(s, i) ==
    IF i > Len(s) THEN 0
    ELSE IF s[i] = "@" THEN i
    ELSE AtIndex(s, i + 1)

\* email.includes('@')
IncludesAt(s) == AtIndex(s, 1) # 0

\* email.split('@')[0]
LocalPart(s) ==
    IF AtIndex(s, 1) = 0 THEN s ELSE SubSeq(s, 1, AtIndex(s, 1) - 1)

\* .replace(/[^a-zA-Z0-9]/g, '')
StripNonAlnum(s) == SelectSeq(s, LAMBDA ch : ch \in AlnumChars)

\* A name taken from the local part without the replace.
MeNameUnstripped(email) ==
    IF LocalPart(email) = EmptyStr THEN <<"U", "s", "e", "r">> ELSE LocalPart(email)

\* Name given by me: stripped local part, or 'User'.
MeName(email) ==
    IF StripNonAlnum(LocalPart(email)) = EmptyStr
    THEN <<"U", "s", "e", "r">>
    ELSE StripNonAlnum(LocalPart(email))

\* Name given by joinEvent: the local part as is.
JoinName(email) == LocalPart(email)

\* A check that forgets userEmail.
MissingEventIdOnly(eventId, userEmail) == eventId = ""

\* !eventId || !userEmail
MissingInput(eventId, userEmail) == eventId = "" \/ userEmail = EmptyStr

\* An email check that only refuses the empty string.
BadEmailEmptyOnly(email) == email = EmptyStr

\* !email || !email.includes('@')
BadEmail(email) == email = EmptyStr \/ ~IncludesAt(email)

\* A comparison of the wrong field.
IsAlreadyJoinedByName(existingEvent, userEmail) ==
    \E a \in existingEvent.attendees : a.name = userEmail

\* A comparison with !== for ===.
IsInEventInverted(existingEvent, userEmail) ==
    \E a \in existingEvent.attendees : a.email # userEmail

\* existingEvent.attendees.some(attendee => attendee.email === userEmail)
IsAlreadyJoined(existingEvent, userEmail) ==
    \E a \in existingEvent.attendees : a.email = userEmail

IsInEvent(existingEvent, userEmail) ==
    \E a \in existingEvent.attendees : a.email = userEmail

Failure(msg) == [NoResult EXCEPT !.ok = FALSE, !.error = msg]

EventResult(ev) == [NoResult EXCEPT !.ok = TRUE, !.attendees = ev.attendees]

UserResult(u) == [NoResult EXCEPT !.ok = TRUE, !.user = u]

\* The two emits of a membership change: to the event's room, then to everyone.
Broadcast(c, kind, eventId, user, attendees) ==
    << [by |-> c, type |-> kind, room |-> EventRoom(eventId), eventId |-> eventId,
        user |-> user, attendees |-> attendees,
        to |-> Recipients(EventRoom(eventId))],
       [by |-> c, type |-> "eventUpdated", room |-> GlobalTopic, eventId |-> eventId,
        user |-> NoUser, attendees |-> attendees,
        to |-> Recipients(GlobalTopic)] >>

\* No detail screen is mounted.
NoScreen == [open |-> FALSE, eventId |-> "", shown |-> {}]

\* A property read of a JavaScript object: undefined when it has no such key.
Undefined == "undefined"

Field(obj, key) == IF key \in DOMAIN obj THEN obj[key] ELSE Undefined

\* The object the server passes to io.emit('eventUpdated', ...).
EventUpdatedPayload(m) == [eventId |-> m.eventId, attendees |-> m.attendees]

\* EventDetailScreen: newSocket.on('eventUpdated', (updatedEvent) =>
\*   { if (updatedEvent.id === event.id) setEvent(updatedEvent) }).
OnEventUpdated(scr, updatedEvent) ==
    IF scr.open /\ Field(updatedEvent, "id") = scr.eventId
    THEN [scr EXCEPT !.shown = Field(updatedEvent, "attendees")]
    ELSE scr

\* The screen of client k after the handlers have run for msgs, in order.
RECURSIVE ScreenAfter(_, _, _)
ScreenAfter(scr, k, msgs) ==
    IF msgs = << >> THEN scr
    ELSE ScreenAfter(IF k \in Head(msgs).to /\ Head(msgs).type = "eventUpdated"
                     THEN OnEventUpdated(scr, EventUpdatedPayload(Head(msgs)))
                     ELSE scr,
                     k, Tail(msgs))

Deliver(msgs) == [k \in DOMAIN screens |-> ScreenAfter(screens[k], k, msgs)]

\* What client k has been sent, in the order of its connection.
Inbox(k) == SelectSeq(emitted, LAMBDA m : k \in m.to)

-----------------------------------------------------------------------------
(* Initial state: a database as the seed script leaves it, cut down to one *)
(* user and two events, the user attending the first; no request issued,  *)
(* nothing emitted.                                                        *)

SeedAlice == [id |-> 1, name |-> <<"A">>, email |-> AliceEmail]

\* The seeded join table.
SeedEdges == SetToBag({<<"e1", SeedAlice.id>>})

SeededStore ==
    /\ users = {SeedAlice}
    /\ events = {[id |-> "e1", startTime |-> 20], [id |-> "e2", startTime |-> 22]}
    /\ edges = SeedEdges
    /\ emitted = << >>
    /\ sockets = [k \in 1..NumClients |-> NoSocket]
    /\ screens = [k \in 1..NumClients |-> NoScreen]

Init ==
    /\ SeededStore
    /\ calls = [c \in 1..MaxCalls |-> IdleCall]

SeqInit ==
    /\ SeededStore
    /\ calls = [c \in 1..MaxSeqCalls |-> IdleCall]

RtInit ==
    /\ SeededStore
    /\ calls = [c \in 1..MaxRtCalls |-> IdleCall]

RtSeqInit ==
    /\ SeededStore
    /\ calls = [c \in 1..MaxRtSeqCalls |-> IdleCall]

PairInit ==
    /\ SeededStore
    /\ calls = [c \in 1..MaxPairCalls |-> IdleCall]

-----------------------------------------------------------------------------
(* The requests.  Slots are taken in order, so a slot number is the order  *)
(* in which the server received the requests.                              *)

CanStart(c) ==
    /\ calls[c].pc = "idle"
    /\ \A d \in Calls : d < c => calls[d].pc # "idle"

Done(c) == calls[c].pc = "done"

\* Position of the next update in the order in which the store commits them.
NextWriteStamp == Cardinality({d \in Calls : calls[d].wroteAt > 0}) + 1

AllDone == \A c \in Calls : Done(c)

\* events in descending start time (orderBy: { startTime: 'desc' }).
RECURSIVE SortByStartTimeDesc(_)
SortByStartTimeDesc(S) ==
    IF S = {} THEN << >>
    ELSE LET first == CHOOSE e \in S : \A f \in S : e.startTime >= f.startTime
         IN <<first>> \o SortByStartTimeDesc(S \ {first})

\* events in ascending start time (orderBy: { startTime: 'asc' }).
RECURSIVE SortByStartTime(_)
SortByStartTime(S) ==
    IF S = {} THEN << >>
    ELSE LET first == CHOOSE e \in S : \A f \in S : e.startTime <= f.startTime
         IN <<first>> \o SortByStartTime(S \ {first})

\* Query.events: one findMany with include: { attendees: true }.
InvokeEvents(c) ==
    /\ CanStart(c)
    /\ calls' = [calls EXCEPT ![c].op = "events", ![c].pc = "findMany"]
    /\ UNCHANGED <<users, events, edges, emitted, sockets, screens>>

EventsFindMany(c) ==
    /\ calls[c].op = "events" /\ calls[c].pc = "findMany"
    /\ LET sorted == SortByStartTime(events)
           rows == [i \in 1..Len(sorted) |->
                      [id |-> sorted[i].id, startTime |-> sorted[i].startTime,
                       attendees |-> Attendees(edges, sorted[i].id)]]
       IN calls' = [calls EXCEPT ![c].pc = "done", ![c].ops = @ \cup {"findMany"},
                                 ![c].result = [NoResult EXCEPT !.ok = TRUE,
                                                                !.list = rows]]
    /\ UNCHANGED <<users, events, edges, emitted, sockets, screens>>

\* Query.me: the email check, then find-or-create.
InvokeMe(c, email) ==
    /\ CanStart(c)
    /\ IF BadEmail(email)
       THEN calls' = [calls EXCEPT ![c].op = "me", ![c].email = email,
                                   ![c].pc = "done",
                                   ![c].result = Failure(InvalidEmail)]
       ELSE calls' = [calls EXCEPT ![c].op = "me", ![c].email = email,
                                   ![c].pc = "findUser"]
    /\ UNCHANGED <<users, events, edges, emitted, sockets, screens>>

MeFindUser(c) ==
    /\ calls[c].op = "me" /\ calls[c].pc = "findUser"
    /\ LET user == FindUserByEmail(calls[c].email)
       IN IF user # NoUser
          THEN calls' = [calls EXCEPT ![c].user = user, ![c].pc = "done",
                                      ![c].ops = @ \cup {"findUser"},
                                      ![c].result = UserResult(user)]
          ELSE calls' = [calls EXCEPT ![c].pc = "createUser",
                                      ![c].ops = @ \cup {"findUser"}]
    /\ UNCHANGED <<users, events, edges, emitted, sockets, screens>>

MeCreateUser(c) ==
    /\ calls[c].op = "me" /\ calls[c].pc = "createUser"
    /\ IF EmailIsFree(calls[c].email)
       THEN LET user == [id |-> NewUserId, name |-> MeName(calls[c].email),
                         email |-> calls[c].email]
            IN /\ users' = users \cup {user}
               /\ calls' = [calls EXCEPT ![c].user = user, ![c].pc = "done",
                                         ![c].ops = @ \cup {"createUser"},
                                         ![c].result = UserResult(user)]
       ELSE /\ users' = users
            /\ calls' = [calls EXCEPT ![c].pc = "done",
                                      ![c].ops = @ \cup {"createUserFailed"},
                                      ![c].result = Failure(UniqueViolation)]
    /\ UNCHANGED <<events, edges, emitted, sockets, screens>>

-----------------------------------------------------------------------------
(* Mutation.joinEvent *)

InvokeJoin(c, eventId, userEmail) ==
    /\ CanStart(c)
    /\ IF MissingInput(eventId, userEmail)
       THEN calls' = [calls EXCEPT ![c].op = "join", ![c].eventId = eventId,
                                   ![c].email = userEmail, ![c].pc = "done",
                                   ![c].result = Failure(InvalidInput)]
       ELSE calls' = [calls EXCEPT ![c].op = "join", ![c].eventId = eventId,
                                   ![c].email = userEmail, ![c].pc = "findEvent"]
    /\ UNCHANGED <<users, events, edges, emitted, sockets, screens>>

\* A joinEvent that finds or creates its user before it looks up the event.
JoinFindEventAfterUser(c) ==
    /\ calls[c].op = "join" /\ calls[c].pc = "findEvent"
    /\ users' = IF EmailIsFree(calls[c].email)
                THEN users \cup {[id |-> NewUserId, name |-> JoinName(calls[c].email),
                                  email |-> calls[c].email]}
                ELSE users
    /\ LET existingEvent == FindEvent(calls[c].eventId)
       IN IF ~existingEvent.found
          THEN calls' = [calls EXCEPT ![c].pc = "done",
                                      ![c].ops = @ \cup {"findEvent"},
                                      ![c].result = Failure(NotFound)]
          ELSE calls' = [calls EXCEPT ![c].existingEvent = existingEvent,
                                      ![c].ops = @ \cup {"findEvent"},
                                      ![c].pc = "findUser"]
    /\ UNCHANGED <<events, edges, emitted, sockets, screens>>

JoinFindEvent(c) ==
    /\ calls[c].op = "join" /\ calls[c].pc = "findEvent"
    /\ LET existingEvent == FindEvent(calls[c].eventId)
       IN IF ~existingEvent.found
          THEN calls' = [calls EXCEPT ![c].pc = "done",
                                      ![c].ops = @ \cup {"findEvent"},
                                      ![c].result = Failure(NotFound)]
          ELSE calls' = [calls EXCEPT ![c].existingEvent = existingEvent,
                                      ![c].ops = @ \cup {"findEvent"},
                                      ![c].pc = "findUser"]
    /\ UNCHANGED <<users, events, edges, emitted, sockets, screens>>

\* With the user in hand: return the snapshot when it lists the user, else
\* go on to the update.
JoinCheck(call, user, op) ==
    IF IsAlreadyJoined(call.existingEvent, call.email)
    THEN [call EXCEPT !.user = user, !.ops = @ \cup {op}, !.pc = "done",
                      !.result = EventResult(call.existingEvent)]
    ELSE [call EXCEPT !.user = user, !.ops = @ \cup {op}, !.pc = "connect"]

JoinFindUser(c) ==
    /\ calls[c].op = "join" /\ calls[c].pc = "findUser"
    /\ LET user == FindUserByEmail(calls[c].email)
       IN IF user = NoUser
          THEN calls' = [calls EXCEPT ![c].ops = @ \cup {"findUser"},
                                      ![c].pc = "createUser"]
          ELSE calls' = [calls EXCEPT ![c] = JoinCheck(@, user, "findUser")]
    /\ UNCHANGED <<users, events, edges, emitted, sockets, screens>>

\* A create whose row is never inserted: the request goes on with a user
\* the store does not hold.
JoinCreateUserUnsaved(c) ==
    /\ calls[c].op = "join" /\ calls[c].pc = "createUser"
    /\ LET user == [id |-> NewUserId, name |-> JoinName(calls[c].email),
                    email |-> calls[c].email]
       IN calls' = [calls EXCEPT ![c] = JoinCheck(@, user, "createUser")]
    /\ UNCHANGED <<users, events, edges, emitted, sockets, screens>>

JoinCreateUser(c) ==
    /\ calls[c].op = "join" /\ calls[c].pc = "createUser"
    /\ IF EmailIsFree(calls[c].email)
       THEN LET user == [id |-> NewUserId, name |-> JoinName(calls[c].email),
                         email |-> calls[c].email]
            IN /\ users' = users \cup {user}
               /\ calls' = [calls EXCEPT ![c] = JoinCheck(@, user, "createUser")]
       ELSE /\ users' = users
            /\ calls' = [calls EXCEPT ![c].pc = "done",
                                      ![c].ops = @ \cup {"createUserFailed"},
                                      ![c].result = Failure(UniqueViolation)]
    /\ UNCHANGED <<events, edges, emitted, sockets, screens>>

\* An update that writes back the attendee list of the snapshot plus the
\* user (attendees: { set: [...] }) instead of a connect.
JoinWriteSet(E, call) ==
    SetToBag({r \in DOMAIN E : r[1] # call.eventId}
             \cup {<<call.eventId, a.id>> :
                     a \in call.existingEvent.attendees \cup {call.user}})

\* The rows of the join table after joinEvent's update.
JoinWrite(E, call) == Connect(E, call.eventId, call.user.id)

\* prisma.event.update: the connect and the read of the attendees, one
\* transaction.
\* An update that answers with the snapshot read at the start of the call
\* instead of the attendees it includes.
JoinConnectReturnsSnapshot(c) ==
    /\ calls[c].op = "join" /\ calls[c].pc = "connect"
    /\ edges' = JoinWrite(edges, calls[c])
    /\ calls' = [calls EXCEPT
         ![c].event = calls[c].existingEvent,
         ![c].wrote = IF edges' = edges THEN "nothing" ELSE "added",
         ![c].wroteAt = NextWriteStamp,
         ![c].ops = @ \cup {"connect"},
         ![c].pc = "emit"]
    /\ UNCHANGED <<users, events, emitted, sockets, screens>>

JoinConnect(c) ==
    /\ calls[c].op = "join" /\ calls[c].pc = "connect"
    /\ edges' = JoinWrite(edges, calls[c])
    /\ calls' = [calls EXCEPT
         ![c].event = [found |-> TRUE, id |-> calls[c].eventId,
                       attendees |-> Attendees(edges', calls[c].eventId)],
         ![c].wrote = IF edges' = edges THEN "nothing" ELSE "added",
         ![c].wroteAt = NextWriteStamp,
         ![c].ops = @ \cup {"connect"},
         ![c].pc = "emit"]
    /\ UNCHANGED <<users, events, emitted, sockets, screens>>

\* A payload built from the snapshot read before the update.
JoinPayloadStale(call) == call.existingEvent.attendees

\* attendees of the payload and of eventUpdated: event.attendees.
JoinPayloadAttendees(call) == call.event.attendees

\* An emit that waits for the acknowledgement of a subscriber in the room
\* (socket.timeout(..).emitWithAck) before the resolver returns.
JoinEmitAwaitAck(c) ==
    /\ calls[c].op = "join" /\ calls[c].pc = "emit"
    /\ Recipients(EventRoom(calls[c].eventId)) # {}
    /\ emitted' = emitted \o Broadcast(c, "userJoined", calls[c].eventId,
                                       calls[c].user, JoinPayloadAttendees(calls[c]))
    /\ calls' = [calls EXCEPT ![c].pc = "done",
                              ![c].result = EventResult(calls[c].event)]
    /\ screens' = Deliver(SubSeq(emitted', Len(emitted) + 1, Len(emitted')))
    /\ UNCHANGED <<users, events, edges, sockets>>

JoinEmit(c) ==
    /\ calls[c].op = "join" /\ calls[c].pc = "emit"
    /\ emitted' = emitted \o Broadcast(c, "userJoined", calls[c].eventId,
                                       calls[c].user, JoinPayloadAttendees(calls[c]))
    /\ calls' = [calls EXCEPT ![c].pc = "done",
                              ![c].result = EventResult(calls[c].event)]
    /\ screens' = Deliver(SubSeq(emitted', Len(emitted) + 1, Len(emitted')))
    /\ UNCHANGED <<users, events, edges, sockets>>

-----------------------------------------------------------------------------
(* Mutation.leaveEvent *)

InvokeLeave(c, eventId, userEmail) ==
    /\ CanStart(c)
    /\ IF MissingInput(eventId, userEmail)
       THEN calls' = [calls EXCEPT ![c].op = "leave", ![c].eventId = eventId,
                                   ![c].email = userEmail, ![c].pc = "done",
                                   ![c].result = Failure(InvalidInput)]
       ELSE calls' = [calls EXCEPT ![c].op = "leave", ![c].eventId = eventId,
                                   ![c].email = userEmail, ![c].pc = "findEvent"]
    /\ UNCHANGED <<users, events, edges, emitted, sockets, screens>>

LeaveFindEvent(c) ==
    /\ calls[c].op = "leave" /\ calls[c].pc = "findEvent"
    /\ LET existingEvent == FindEvent(calls[c].eventId)
       IN IF ~existingEvent.found
          THEN calls' = [calls EXCEPT ![c].pc = "done",
                                      ![c].ops = @ \cup {"findEvent"},
                                      ![c].result = Failure(NotFound)]
          ELSE calls' = [calls EXCEPT ![c].existingEvent = existingEvent,
                                      ![c].ops = @ \cup {"findEvent"},
                                      ![c].pc = "findUser"]
    /\ UNCHANGED <<users, events, edges, emitted, sockets, screens>>

\* A leaveEvent that resolves the user as joinEvent does (find or create).
LeaveFindOrCreateUser(c) ==
    /\ calls[c].op = "leave" /\ calls[c].pc = "findUser"
    /\ LET found == FindUserByEmail(calls[c].email)
           user == IF found = NoUser
                   THEN [id |-> NewUserId, name |-> JoinName(calls[c].email),
                         email |-> calls[c].email]
                   ELSE found
       IN /\ users' = users \cup {user}
          /\ calls' = [calls EXCEPT ![c].user = user,
                                    ![c].ops = @ \cup {"findUser"},
                                    ![c].pc = "done",
                                    ![c].result = EventResult(calls[c].existingEvent)]
    /\ UNCHANGED <<events, edges, emitted, sockets, screens>>

LeaveFindUser(c) ==
    /\ calls[c].op = "leave" /\ calls[c].pc = "findUser"
    /\ LET user == FindUserByEmail(calls[c].email)
       IN IF user = NoUser
          THEN calls' = [calls EXCEPT ![c].ops = @ \cup {"findUser"},
                                      ![c].pc = "done",
                                      ![c].result = Failure(UserNotFound)]
          ELSE IF ~IsInEvent(calls[c].existingEvent, calls[c].email)
          THEN calls' = [calls EXCEPT ![c].user = user,
                                      ![c].ops = @ \cup {"findUser"},
                                      ![c].pc = "done",
                                      ![c].result = EventResult(calls[c].existingEvent)]
          ELSE calls' = [calls EXCEPT ![c].user = user,
                                      ![c].ops = @ \cup {"findUser"},
                                      ![c].pc = "disconnect"]
    /\ UNCHANGED <<users, events, edges, emitted, sockets, screens>>

\* An update that deletes no row.
LeaveWriteSkipped(E, call) == E

\* The rows of the join table after leaveEvent's update.
LeaveWrite(E, call) == Disconnect(E, call.eventId, call.user.id)

LeaveDisconnect(c) ==
    /\ calls[c].op = "leave" /\ calls[c].pc = "disconnect"
    /\ edges' = LeaveWrite(edges, calls[c])
    /\ calls' = [calls EXCEPT
         ![c].event = [found |-> TRUE, id |-> calls[c].eventId,
                       attendees |-> Attendees(edges', calls[c].eventId)],
         ![c].wrote = IF edges' = edges THEN "nothing" ELSE "removed",
         ![c].wroteAt = NextWriteStamp,
         ![c].ops = @ \cup {"disconnect"},
         ![c].pc = "emit"]
    /\ UNCHANGED <<users, events, emitted, sockets, screens>>

\* A payload built from the snapshot read before the update.
LeavePayloadStale(call) == call.existingEvent.attendees

\* attendees of the payload and of eventUpdated: event.attendees.
LeavePayloadAttendees(call) == call.event.attendees

LeaveEmit(c) ==
    /\ calls[c].op = "leave" /\ calls[c].pc = "emit"
    /\ emitted' = emitted \o Broadcast(c, "userLeft", calls[c].eventId,
                                       calls[c].user, LeavePayloadAttendees(calls[c]))
    /\ calls' = [calls EXCEPT ![c].pc = "done",
                              ![c].result = EventResult(calls[c].event)]
    /\ screens' = Deliver(SubSeq(emitted', Len(emitted) + 1, Len(emitted')))
    /\ UNCHANGED <<users, events, edges, sockets>>

-----------------------------------------------------------------------------
(* Requests arrive and proceed in any interleaving. *)

Next ==
    \E c \in 1..MaxCalls :
        \/ InvokeEvents(c)
        \/ \E email \in EmailArgs : InvokeMe(c, email)
        \/ \E eventId \in EventIdArgs, email \in UserEmailArgs :
               InvokeJoin(c, eventId, email)
        \/ \E eventId \in EventIdArgs, email \in UserEmailArgs :
               InvokeLeave(c, eventId, email)
        \/ EventsFindMany(c)
        \/ MeFindUser(c)
        \/ MeCreateUser(c)
        \/ JoinFindEvent(c)
        \/ JoinFindUser(c)
        \/ JoinCreateUser(c)
        \/ JoinConnect(c)
        \/ JoinEmit(c)
        \/ LeaveFindEvent(c)
        \/ LeaveFindUser(c)
        \/ LeaveDisconnect(c)
        \/ LeaveEmit(c)

Spec == Init /\ [][Next]_vars

\* One client that awaits each response before its next request: a request
\* starts only while no other is in progress.  This client sends no empty
\* argument (the requests with one are all in Spec).
Quiet == \A c \in Calls : calls[c].pc \in {"idle", "done"}

SeqInvokeEvents(c) == Quiet /\ InvokeEvents(c)

SeqInvokeMe(c, email) == Quiet /\ email # EmptyStr /\ InvokeMe(c, email)

SeqInvokeJoin(c, eventId, email) ==
    Quiet /\ eventId # "" /\ email # EmptyStr /\ InvokeJoin(c, eventId, email)

SeqInvokeLeave(c, eventId, email) ==
    Quiet /\ eventId # "" /\ email # EmptyStr /\ InvokeLeave(c, eventId, email)

SeqNext ==
    \E c \in 1..MaxSeqCalls :
        \/ SeqInvokeEvents(c)
        \/ \E email \in EmailArgs : SeqInvokeMe(c, email)
        \/ \E eventId \in EventIdArgs, email \in UserEmailArgs :
               SeqInvokeJoin(c, eventId, email)
        \/ \E eventId \in EventIdArgs, email \in UserEmailArgs :
               SeqInvokeLeave(c, eventId, email)
        \/ EventsFindMany(c)
        \/ MeFindUser(c)
        \/ MeCreateUser(c)
        \/ JoinFindEvent(c)
        \/ JoinFindUser(c)
        \/ JoinCreateUser(c)
        \/ JoinConnect(c)
        \/ JoinEmit(c)
        \/ LeaveFindEvent(c)
        \/ LeaveFindUser(c)
        \/ LeaveDisconnect(c)
        \/ LeaveEmit(c)

SeqSpec == SeqInit /\ [][SeqNext]_vars

-----------------------------------------------------------------------------
(* socket.io connections *)

\* The event ids clients name in joinEventRoom and leaveEventRoom.
RoomIdArgs == {"e1", "e2"}

\* io.on('connection'): a client's socket connects; it is in no event room.
SocketConnect(k) ==
    /\ ~sockets[k].connected
    /\ sockets' = [sockets EXCEPT ![k] = [connected |-> TRUE, rooms |-> {}]]
    /\ UNCHANGED <<users, events, edges, calls, emitted, screens>>

\* A handler that puts every connected socket into the room
\* (io.socketsJoin) instead of the sending one.
JoinEventRoomEveryone(k, eventId) ==
    /\ sockets[k].connected
    /\ sockets' = [j \in DOMAIN sockets |->
                     IF sockets[j].connected
                     THEN [sockets[j] EXCEPT !.rooms = @ \cup {EventRoom(eventId)}]
                     ELSE sockets[j]]
    /\ UNCHANGED <<users, events, edges, calls, emitted, screens>>

\* socket.on('joinEventRoom'): socket.join(`event-${eventId}`).
JoinEventRoom(k, eventId) ==
    /\ sockets[k].connected
    /\ sockets' = [sockets EXCEPT ![k].rooms = @ \cup {EventRoom(eventId)}]
    /\ UNCHANGED <<users, events, edges, calls, emitted, screens>>

\* socket.on('leaveEventRoom'): socket.leave(`event-${eventId}`).
LeaveEventRoom(k, eventId) ==
    /\ sockets[k].connected
    /\ sockets' = [sockets EXCEPT ![k].rooms = @ \ {EventRoom(eventId)}]
    /\ UNCHANGED <<users, events, edges, calls, emitted, screens>>

\* socket.on('disconnect'): socket.io has taken the socket out of its rooms.
SocketDisconnect(k) ==
    /\ sockets[k].connected
    /\ sockets' = [sockets EXCEPT ![k] = NoSocket]
    /\ UNCHANGED <<users, events, edges, calls, emitted, screens>>

\* Mutations on one stored event while clients connect, subscribe, unsubscribe
\* and disconnect.
RtEventIdArgs == {"e1"}

RtEmailArgs == {AliceEmail, BobEmail}

RtNext ==
    \/ \E c \in 1..MaxRtCalls :
        \/ \E eventId \in RtEventIdArgs, email \in RtEmailArgs :
               InvokeJoin(c, eventId, email)
        \/ \E eventId \in RtEventIdArgs, email \in RtEmailArgs :
               InvokeLeave(c, eventId, email)
        \/ JoinFindEvent(c)
        \/ JoinFindUser(c)
        \/ JoinCreateUser(c)
        \/ JoinConnect(c)
        \/ JoinEmit(c)
        \/ LeaveFindEvent(c)
        \/ LeaveFindUser(c)
        \/ LeaveDisconnect(c)
        \/ LeaveEmit(c)
    \/ \E k \in 1..NumClients :
        \/ SocketConnect(k)
        \/ \E eventId \in RoomIdArgs : JoinEventRoom(k, eventId)
        \/ \E eventId \in RoomIdArgs : LeaveEventRoom(k, eventId)
        \/ SocketDisconnect(k)

RtSpec == RtInit /\ [][RtNext]_vars

\* The realtime test: mutations on one event sent one after the other, each
\* awaited, while clients connect, subscribe, unsubscribe and disconnect.
RtSeqNext ==
    \/ \E c \in 1..MaxRtSeqCalls :
        \/ \E eventId \in RtEventIdArgs, email \in RtEmailArgs :
               SeqInvokeJoin(c, eventId, email)
        \/ \E eventId \in RtEventIdArgs, email \in RtEmailArgs :
               SeqInvokeLeave(c, eventId, email)
        \/ JoinFindEvent(c)
        \/ JoinFindUser(c)
        \/ JoinCreateUser(c)
        \/ JoinConnect(c)
        \/ JoinEmit(c)
        \/ LeaveFindEvent(c)
        \/ LeaveFindUser(c)
        \/ LeaveDisconnect(c)
        \/ LeaveEmit(c)
    \/ \E k \in 1..NumClients :
        \/ SocketConnect(k)
        \/ \E eventId \in RoomIdArgs : JoinEventRoom(k, eventId)
        \/ \E eventId \in RoomIdArgs : LeaveEventRoom(k, eventId)
        \/ SocketDisconnect(k)

RtSeqSpec == RtSeqInit /\ [][RtSeqNext]_vars

-----------------------------------------------------------------------------
(* The app's event detail screen *)

\* The screen mounts with the event the list passed in route.params, shown
\* here with the attendees the store holds now; its effect opens a socket
\* and registers the eventUpdated handler.  It emits nothing to the server.
OpenDetail(k, eventId) ==
    /\ ~screens[k].open /\ ~sockets[k].connected
    /\ screens' = [screens EXCEPT ![k] = [open |-> TRUE, eventId |-> eventId,
                                          shown |-> Attendees(edges, eventId)]]
    /\ sockets' = [sockets EXCEPT ![k] = [connected |-> TRUE, rooms |-> {}]]
    /\ UNCHANGED <<users, events, edges, calls, emitted>>

\* The effect's cleanup on unmount: newSocket.close().
CloseDetail(k) ==
    /\ screens[k].open
    /\ screens' = [screens EXCEPT ![k] = NoScreen]
    /\ sockets' = [sockets EXCEPT ![k] = NoSocket]
    /\ UNCHANGED <<users, events, edges, calls, emitted>>

\* Users of the app open and close the detail screen of an event while
\* other users' joinEvent and leaveEvent requests on event e1 run.
DetailNext ==
    \/ \E c \in 1..MaxCalls :
        \/ \E eventId \in RtEventIdArgs, email \in RtEmailArgs :
               InvokeJoin(c, eventId, email)
        \/ \E eventId \in RtEventIdArgs, email \in RtEmailArgs :
               InvokeLeave(c, eventId, email)
        \/ JoinFindEvent(c)
        \/ JoinFindUser(c)
        \/ JoinCreateUser(c)
        \/ JoinConnect(c)
        \/ JoinEmit(c)
        \/ LeaveFindEvent(c)
        \/ LeaveFindUser(c)
        \/ LeaveDisconnect(c)
        \/ LeaveEmit(c)
    \/ \E k \in 1..NumClients :
        \/ \E eventId \in RoomIdArgs : OpenDetail(k, eventId)
        \/ CloseDetail(k)

DetailSpec == Init /\ [][DetailNext]_vars

\* The steps of one request.  The store answers every query and the event
\* loop runs every continuation, so a step that stays possible is taken;
\* nothing is assumed about what clients do with their sockets.
RequestStep(c) ==
    \/ JoinFindEvent(c)
    \/ JoinFindUser(c)
    \/ JoinCreateUser(c)
    \/ JoinConnect(c)
    \/ JoinEmit(c)
    \/ LeaveFindEvent(c)
    \/ LeaveFindUser(c)
    \/ LeaveDisconnect(c)
    \/ LeaveEmit(c)

RtFairSpec ==
    /\ RtInit
    /\ [][RtNext]_vars
    /\ \A c \in 1..MaxRtCalls : WF_vars(RequestStep(c))

\* Concurrent joinEvent and leaveEvent requests for one user on one event
\* while clients connect, subscribe, unsubscribe and disconnect.
RtPairNext ==
    \/ \E c \in 1..MaxCalls :
        \/ InvokeJoin(c, "e1", BobEmail)
        \/ InvokeLeave(c, "e1", BobEmail)
        \/ JoinFindEvent(c)
        \/ JoinFindUser(c)
        \/ JoinCreateUser(c)
        \/ JoinConnect(c)
        \/ JoinEmit(c)
        \/ LeaveFindEvent(c)
        \/ LeaveFindUser(c)
        \/ LeaveDisconnect(c)
        \/ LeaveEmit(c)
    \/ \E k \in 1..NumClients :
        \/ SocketConnect(k)
        \/ \E eventId \in RoomIdArgs : JoinEventRoom(k, eventId)
        \/ \E eventId \in RoomIdArgs : LeaveEventRoom(k, eventId)
        \/ SocketDisconnect(k)

RtPairSpec == Init /\ [][RtPairNext]_vars

-----------------------------------------------------------------------------
(* A broadcast step that fails.  Both emits are inside the try block of the *)
(* resolver, after the awaited update; the catch block logs and rethrows.   *)

\* The first `sent` messages of the two went out before the throw.
JoinEmitThrows(c) ==
    /\ calls[c].op = "join" /\ calls[c].pc = "emit"
    /\ \E sent \in {0, 1} :
          emitted' = emitted \o SubSeq(Broadcast(c, "userJoined", calls[c].eventId,
                                                 calls[c].user,
                                                 JoinPayloadAttendees(calls[c])),
                                       1, sent)
    /\ calls' = [calls EXCEPT ![c].pc = "done", ![c].result = Failure(EmitFailed)]
    /\ screens' = Deliver(SubSeq(emitted', Len(emitted) + 1, Len(emitted')))
    /\ UNCHANGED <<users, events, edges, sockets>>

LeaveEmitThrows(c) ==
    /\ calls[c].op = "leave" /\ calls[c].pc = "emit"
    /\ \E sent \in {0, 1} :
          emitted' = emitted \o SubSeq(Broadcast(c, "userLeft", calls[c].eventId,
                                                 calls[c].user,
                                                 LeavePayloadAttendees(calls[c])),
                                       1, sent)
    /\ calls' = [calls EXCEPT ![c].pc = "done", ![c].result = Failure(EmitFailed)]
    /\ screens' = Deliver(SubSeq(emitted', Len(emitted) + 1, Len(emitted')))
    /\ UNCHANGED <<users, events, edges, sockets>>

\* The requests of Spec on a server whose emits may throw.
FaultNext ==
    \E c \in 1..MaxCalls :
        \/ InvokeEvents(c)
        \/ \E email \in EmailArgs : InvokeMe(c, email)
        \/ \E eventId \in EventIdArgs, email \in UserEmailArgs :
               InvokeJoin(c, eventId, email)
        \/ \E eventId \in EventIdArgs, email \in UserEmailArgs :
               InvokeLeave(c, eventId, email)
        \/ EventsFindMany(c)
        \/ MeFindUser(c)
        \/ MeCreateUser(c)
        \/ JoinFindEvent(c)
        \/ JoinFindUser(c)
        \/ JoinCreateUser(c)
        \/ JoinConnect(c)
        \/ JoinEmit(c)
        \/ JoinEmitThrows(c)
        \/ LeaveFindEvent(c)
        \/ LeaveFindUser(c)
        \/ LeaveDisconnect(c)
        \/ LeaveEmit(c)
        \/ LeaveEmitThrows(c)

FaultSpec == Init /\ [][FaultNext]_vars

\* One client that enters an unseen email on the login screen (me) or joins
\* an event with it (joinEvent), one request after the other.
NameEmailArgs == {BobEmail, DotEmail}

NameNext ==
    \E c \in 1..MaxSeqCalls :
        \/ \E email \in NameEmailArgs : SeqInvokeMe(c, email)
        \/ \E email \in NameEmailArgs : SeqInvokeJoin(c, "e1", email)
        \/ MeFindUser(c)
        \/ MeCreateUser(c)
        \/ JoinFindEvent(c)
        \/ JoinFindUser(c)
        \/ JoinCreateUser(c)
        \/ JoinConnect(c)
        \/ JoinEmit(c)

NameSpec == SeqInit /\ [][NameNext]_vars

\* Several clients that press Join and Leave for one user on one event, and
\* reload the event list, at the same time: concurrent requests that all
\* name the pair (PairEvent, PairEmail).
PairEvent == "e1"

PairEmail == BobEmail

PairNext ==
    \E c \in 1..MaxPairCalls :
        \/ InvokeEvents(c)
        \/ InvokeJoin(c, PairEvent, PairEmail)
        \/ InvokeLeave(c, PairEvent, PairEmail)
        \/ EventsFindMany(c)
        \/ JoinFindEvent(c)
        \/ JoinFindUser(c)
        \/ JoinCreateUser(c)
        \/ JoinConnect(c)
        \/ JoinEmit(c)
        \/ LeaveFindEvent(c)
        \/ LeaveFindUser(c)
        \/ LeaveDisconnect(c)
        \/ LeaveEmit(c)

PairSpec == PairInit /\ [][PairNext]_vars

-----------------------------------------------------------------------------
(* Vocabulary of the properties *)

EventExists(eventId) == \E e \in events : e.id = eventId

Emails(S) == {u.email : u \in S}

IsJoin(c) == calls[c].op = "join"

IsLeave(c) == calls[c].op = "leave"

\* A mutation whose two arguments are non-empty and whose event is stored.
OnStoredEvent(c) ==
    /\ calls[c].eventId # "" /\ calls[c].email # EmptyStr
    /\ EventExists(calls[c].eventId)

SamePair(c, d) ==
    calls[c].eventId = calls[d].eventId /\ calls[c].email = calls[d].email

\* Number of rows of the join table for (event, user with that email).
EdgeCount(eventId, email) ==
    LET u == CHOOSE u \in users : u.email = email
    IN IF email \in Emails(users) THEN CopiesIn(<<eventId, u.id>>, edges) ELSE 0

\* The snapshot read at the start of the call lists the user.
InSnapshot(c) ==
    \E a \in calls[c].existingEvent.attendees : a.email = calls[c].email

WriteOps == {"createUser", "connect", "disconnect"}

\* Positions in the emission order of the messages request c emitted.
EmittedBy(c, type) ==
    {i \in DOMAIN emitted : emitted[i].by = c /\ emitted[i].type = type}

-----------------------------------------------------------------------------
\* C1: under any interleaving of joinEvent, leaveEvent and me requests, a
\* (user, event) pair has at most one row in the membership relation; and
\* once every request has completed, a pair that some joinEvent on a stored
\* event named, and no leaveEvent named, has exactly one row.
C1_OneEdgePerJoinedPair ==
    /\ \A e \in events, u \in users : CopiesIn(<<e.id, u.id>>, edges) <= 1
    /\ AllDone =>
         \A c \in Calls :
            (/\ IsJoin(c) /\ OnStoredEvent(c)
             /\ ~\E d \in Calls : IsLeave(d) /\ SamePair(c, d))
            => EdgeCount(calls[c].eventId, calls[c].email) = 1

\* C2: in one client's sequence, a joinEvent directly after a joinEvent of
\* the same pair on a stored event succeeds, returns the attendee set the
\* first returned (so the same count), and does no store write; with no
\* later request that set is the stored one.
C2_SecondJoinIsNoOp ==
    \A c \in Calls : \A d \in Calls :
        (/\ d = c + 1 /\ IsJoin(c) /\ IsJoin(d) /\ SamePair(c, d)
         /\ OnStoredEvent(c) /\ Done(c) /\ Done(d))
        => /\ calls[c].result.ok /\ calls[d].result.ok
           /\ calls[d].result.attendees = calls[c].result.attendees
           /\ Cardinality(calls[d].result.attendees)
                = Cardinality(calls[c].result.attendees)
           /\ calls[d].ops \cap (WriteOps \cup {"createUserFailed"}) = {}
           /\ calls[d].wrote = "none"
           /\ (\A n \in Calls : n > d => calls[n].pc = "idle")
                => Attendees(edges, calls[d].eventId) = calls[c].result.attendees

C2_Witness ==
    \E c \in Calls : \E d \in Calls :
        /\ d = c + 1 /\ IsJoin(c) /\ IsJoin(d) /\ SamePair(c, d)
        /\ OnStoredEvent(c) /\ Done(c) /\ Done(d)
        /\ calls[c].wrote = "added" /\ calls[c].email = BobEmail
        /\ calls[d].result.ok

\* C3: in one client's sequence, joinEvent of a non-member on a stored event
\* directly followed by leaveEvent of the same pair: the leave response is
\* the pre-join attendee set, omits the user and has one attendee fewer
\* than the join response; an events query sent next shows the same set.
C3_JoinLeaveRoundTrip ==
    \A c \in Calls : \A d \in Calls :
        (/\ d = c + 1 /\ IsJoin(c) /\ IsLeave(d) /\ SamePair(c, d)
         /\ OnStoredEvent(c) /\ Done(c) /\ Done(d)
         /\ calls[c].email \notin Emails(calls[c].existingEvent.attendees))
        => /\ calls[c].result.ok /\ calls[d].result.ok
           /\ Emails(calls[d].result.attendees)
                = Emails(calls[c].existingEvent.attendees)
           /\ calls[d].email \notin Emails(calls[d].result.attendees)
           /\ Cardinality(calls[d].result.attendees)
                = Cardinality(calls[c].result.attendees) - 1
           /\ \A q \in Calls :
                (q = d + 1 /\ calls[q].op = "events" /\ Done(q))
                => \A i \in DOMAIN calls[q].result.list :
                     calls[q].result.list[i].id = calls[c].eventId
                     => /\ calls[q].result.list[i].attendees
                             = calls[d].result.attendees
                        /\ calls[d].email
                             \notin Emails(calls[q].result.list[i].attendees)

C3_Witness ==
    /\ IsJoin(1) /\ IsLeave(2) /\ SamePair(1, 2) /\ calls[3].op = "events"
    /\ Done(3) /\ calls[1].wrote = "added" /\ calls[2].wrote = "removed"
    /\ calls[1].email = BobEmail /\ calls[1].eventId = "e1"
    /\ Len(calls[3].result.list) = 2

\* C4: a leaveEvent on a stored event whose user exists and is not listed
\* among the event's attendees succeeds, returns that attendee set, and
\* writes nothing to the store; it is a success, not 'User not found'.
C4_LeaveOfNonMemberIsNoOp ==
    /\ \A c \in Calls :
        (/\ IsLeave(c) /\ Done(c) /\ calls[c].existingEvent.found
         /\ calls[c].user # NoUser /\ ~InSnapshot(c))
        => /\ calls[c].result.ok
           /\ calls[c].result.error # UserNotFound
           /\ calls[c].result.attendees = calls[c].existingEvent.attendees
           /\ calls[c].ops \cap WriteOps = {}
           /\ EmittedBy(c, "userLeft") = {}
    /\ \A c \in Calls :
        (IsLeave(c) /\ calls[c].user # NoUser /\ ~InSnapshot(c))
        => calls[c].wrote = "none"

C4_Witness ==
    \E c \in Calls :
        /\ IsLeave(c) /\ Done(c) /\ calls[c].existingEvent.found
        /\ calls[c].user = SeedAlice /\ calls[c].eventId = "e2"
        /\ ~InSnapshot(c) /\ calls[c].result.ok

\* C5: a leaveEvent on a stored event whose email has no User row fails with
\* 'User not found'; and no step of any leaveEvent changes the User table.
C5_LeaveOfUnknownUser ==
    \A c \in Calls :
        (/\ IsLeave(c) /\ Done(c) /\ calls[c].existingEvent.found
         /\ calls[c].user = NoUser)
        => /\ ~calls[c].result.ok
           /\ calls[c].result.error = UserNotFound

C5_LeaveNeverCreatesUser ==
    /\ [] C5_LeaveOfUnknownUser
    /\ [][\A c \in Calls :
            (calls'[c].op = "leave" /\ calls'[c] # calls[c]) => users' = users]_vars

C5_Witness ==
    \E c \in Calls :
        /\ IsLeave(c) /\ Done(c) /\ calls[c].existingEvent.found
        /\ calls[c].email = BobEmail /\ calls[c].result.error = UserNotFound
        /\ BobEmail \notin Emails(users)

\* C6 as stated: a joinEvent or leaveEvent with a non-empty eventId of no
\* stored event fails with 'Event not found' for every userEmail.
C6_NotFoundForEveryEmail ==
    \A c \in Calls :
        (/\ (IsJoin(c) \/ IsLeave(c)) /\ Done(c)
         /\ calls[c].eventId # "" /\ ~EventExists(calls[c].eventId))
        => calls[c].result = Failure(NotFound)

\* C6 (amended): a joinEvent or leaveEvent with a non-empty eventId of no
\* stored event fails with 'Event not found' for every non-empty userEmail,
\* whether or not a User has that email; with an empty userEmail it fails
\* with the input error instead.
C6_NotFoundForNonEmptyEmail ==
    \A c \in Calls :
        (/\ (IsJoin(c) \/ IsLeave(c)) /\ Done(c)
         /\ calls[c].eventId # "" /\ ~EventExists(calls[c].eventId))
        => IF calls[c].email # EmptyStr
           THEN calls[c].result = Failure(NotFound)
           ELSE calls[c].result = Failure(InvalidInput)

C6_Witness ==
    \E c \in Calls : \E d \in Calls :
        /\ IsJoin(c) /\ Done(c) /\ calls[c].eventId = "zz"
        /\ calls[c].email = AliceEmail /\ AliceEmail \in Emails(users)
        /\ calls[c].result.error = NotFound
        /\ IsLeave(d) /\ Done(d) /\ calls[d].eventId = "zz"
        /\ calls[d].email = BobEmail /\ BobEmail \notin Emails(users)
        /\ calls[d].result.error = NotFound

\* C7: a joinEvent or leaveEvent with an empty eventId or an empty userEmail
\* fails with the input error, and the request makes no store read or write.
C7_EmptyInputRejectedFirst ==
    \A c \in Calls :
        (/\ (IsJoin(c) \/ IsLeave(c))
         /\ (calls[c].eventId = "" \/ calls[c].email = EmptyStr))
        => /\ Done(c)
           /\ calls[c].result = Failure(InvalidInput)
           /\ calls[c].ops = {}
           /\ calls[c].wrote = "none"

C7_Witness ==
    \E c \in Calls : \E d \in Calls :
        /\ IsJoin(c) /\ calls[c].eventId = "e1" /\ calls[c].email = EmptyStr
        /\ calls[c].result.error = InvalidInput
        /\ IsLeave(d) /\ calls[d].eventId = "" /\ calls[d].email = AliceEmail
        /\ calls[d].result.error = InvalidInput

DistinctJoinsOnOneEvent ==
    /\ \A c \in Calls : IsJoin(c) /\ OnStoredEvent(c)
    /\ \A c \in Calls : \A d \in Calls :
          c # d => /\ calls[c].eventId = calls[d].eventId
                   /\ calls[c].email # calls[d].email

\* C10: when all requests are joinEvent calls on one stored event with
\* pairwise distinct emails, then once all have completed each succeeded,
\* the event has exactly one row per email, its attendees are the seeded
\* ones plus the users of the calls, and no other event's rows changed.
C10_NoJoinLost ==
    (AllDone /\ DistinctJoinsOnOneEvent)
    => /\ \A c \in Calls :
            /\ calls[c].result.ok
            /\ EdgeCount(calls[c].eventId, calls[c].email) = 1
       /\ \A e \in events :
            Emails(Attendees(edges, e.id))
              = Emails(Attendees(SeedEdges, e.id))
                  \cup {calls[c].email : c \in {d \in Calls : calls[d].eventId = e.id}}

C10_Witness ==
    /\ AllDone /\ DistinctJoinsOnOneEvent
    /\ \A c \in Calls :
          /\ calls[c].eventId = "e2"
          /\ calls[c].existingEvent.attendees = {}
          /\ calls[c].wrote = "added"

-----------------------------------------------------------------------------
\* C15: in every reachable state no two User rows have the same email (nor
\* the same id), also when a me and a joinEvent that name the same unseen
\* email both find no row before either creates one: the later create is
\* refused by the unique index.
C15_OneUserPerEmail ==
    /\ \A u \in users : \A v \in users :
          (u.email = v.email \/ u.id = v.id) => u = v
    /\ \A c \in Calls : \A d \in Calls :
          (/\ c # d /\ calls[c].email = calls[d].email
           /\ "createUser" \in calls[c].ops)
          => "createUser" \notin calls[d].ops

C15_Witness ==
    \E c \in Calls : \E d \in Calls :
        /\ calls[c].op = "me" /\ IsJoin(d)
        /\ calls[c].email = BobEmail /\ calls[d].email = BobEmail
        /\ "findUser" \in calls[c].ops /\ "findUser" \in calls[d].ops
        /\ calls[c].user = NoUser \/ calls[d].user = NoUser
        /\ Done(c) /\ Done(d)
        /\ \/ "createUser" \in calls[c].ops /\ "createUserFailed" \in calls[d].ops
           \/ "createUser" \in calls[d].ops /\ "createUserFailed" \in calls[c].ops
        /\ Cardinality({u \in users : u.email = BobEmail}) = 1

\* Every row of the join table names the id of a stored Event and the id of
\* a stored User.
EdgesReferToStoredRows ==
    \A r \in DOMAIN edges :
        /\ \E e \in events : e.id = r[1]
        /\ \E u \in users : u.id = r[2]

\* C16: in every reachable state every membership row references a stored
\* Event and a stored User, and no step of events, me, joinEvent or
\* leaveEvent removes or alters a User row or an Event row.
C16_EdgesReferToStoredRows ==
    /\ [] EdgesReferToStoredRows
    /\ [][users \subseteq users' /\ events' = events]_vars

C16_Witness ==
    \E c \in Calls : \E d \in Calls :
        /\ IsJoin(c) /\ Done(c) /\ calls[c].wrote = "added"
        /\ calls[c].email = BobEmail /\ "createUser" \in calls[c].ops
        /\ EdgeCount(calls[c].eventId, BobEmail) = 1
        /\ IsLeave(d) /\ Done(d) /\ calls[d].wrote = "removed"
        /\ calls[d].user = SeedAlice /\ SeedAlice \in users
        /\ EdgeCount("e1", AliceEmail) = 0
        /\ Cardinality(events) = 2

\* An email the check of Query.me lets through: non-empty, with an '@'.
ValidEmail(email) ==
    email # EmptyStr /\ \E i \in DOMAIN email : email[i] = "@"

\* C17: a completed me(email) with a valid email has returned a stored User
\* with that email (the row it found, or the one row it created), has made
\* no write other than that insert, and has emitted nothing.
C17_MeFindsOrCreates ==
    \A c \in Calls :
        (calls[c].op = "me" /\ ValidEmail(calls[c].email) /\ Done(c))
        => /\ calls[c].result.ok
           /\ calls[c].result.user \in users
           /\ calls[c].result.user.email = calls[c].email
           /\ Cardinality({u \in users : u.email = calls[c].email}) = 1
           /\ calls[c].wrote = "none"
           /\ \A i \in DOMAIN emitted : emitted[i].by # c

\* C18: me(email) with an empty email or an email without '@' fails with
\* 'Valid email is required' before any store access, and no step of such a
\* call changes the User table.
C18_InvalidEmailRejected ==
    \A c \in Calls :
        (calls[c].op = "me" /\ ~ValidEmail(calls[c].email))
        => /\ Done(c)
           /\ calls[c].result = Failure(InvalidEmail)
           /\ calls[c].ops = {}
           /\ calls[c].email \notin Emails(users)

C18_InvalidEmailCreatesNoUser ==
    /\ [] C18_InvalidEmailRejected
    /\ [][\A c \in Calls :
            (/\ calls'[c].op = "me" /\ ~ValidEmail(calls'[c].email)
             /\ calls'[c] # calls[c]) => users' = users]_vars

C18_Witness ==
    \E c \in Calls : \E d \in Calls :
        /\ calls[c].op = "me" /\ calls[c].email = EmptyStr
        /\ calls[c].result.error = InvalidEmail
        /\ calls[d].op = "me" /\ calls[d].email = NoAtEmail
        /\ calls[d].result.error = InvalidEmail
        /\ users = {SeedAlice}

\* The list is every stored Event once, in ascending start time.
EveryEventOnceAscending(list) ==
    /\ Len(list) = Cardinality(events)
    /\ \A e \in events : \E i \in DOMAIN list :
          list[i].id = e.id /\ list[i].startTime = e.startTime
    /\ \A i \in DOMAIN list : \A j \in DOMAIN list :
          /\ i < j => list[i].startTime <= list[j].startTime
          /\ i # j => list[i].id # list[j].id

\* C19: a completed events query has returned every stored Event exactly
\* once, in ascending start time; and at the step where the query reads the
\* store, each returned event carries exactly the users that have a
\* membership row for it in the store at that step.
C19_EventsListed ==
    \A c \in Calls :
        (calls[c].op = "events" /\ Done(c))
        => /\ calls[c].result.ok
           /\ EveryEventOnceAscending(calls[c].result.list)

C19_EventsListedWithStoredAttendees ==
    /\ [] C19_EventsListed
    /\ [][\A c \in Calls :
            (/\ calls[c].op = "events" /\ calls[c].pc = "findMany"
             /\ calls'[c].pc = "done")
            => \A i \in DOMAIN calls'[c].result.list :
                  calls'[c].result.list[i].attendees
                    = {u \in users :
                         CopiesIn(<<calls'[c].result.list[i].id, u.id>>, edges) >= 1}]_vars

C19_Witness ==
    \E c \in Calls : \E d \in Calls :
        /\ IsJoin(d) /\ Done(d) /\ calls[d].wrote = "added"
        /\ calls[d].email = BobEmail /\ calls[d].eventId = "e1"
        /\ calls[c].op = "events" /\ Done(c)
        /\ Len(calls[c].result.list) = 2
        /\ calls[c].result.list[1].id = "e1"
        /\ Emails(calls[c].result.list[1].attendees) = {AliceEmail, BobEmail}
        /\ calls[c].result.list[2].id = "e2"
        /\ calls[c].result.list[2].attendees = {}

\* Member or NotMember: the number of rows of a pair is 1 or 0.
TwoMembershipStates ==
    \A r \in DOMAIN edges : edges[r] = 1

\* A step of joinEvent (leaveEvent) that runs the update of request c.
JoinUpdateStep(c) ==
    IsJoin(c) /\ calls[c].pc = "connect" /\ calls'[c].pc = "emit"

LeaveUpdateStep(c) ==
    IsLeave(c) /\ calls[c].pc = "disconnect" /\ calls'[c].pc = "emit"

\* Membership of a pair changes only from NotMember to Member in the one
\* update step of a joinEvent of that pair, and only from Member to
\* NotMember in the one update step of a leaveEvent of that pair; and after
\* the update step of a joinEvent (leaveEvent) its pair is Member (NotMember).
MembershipTransitions ==
    /\ \A r \in (DOMAIN edges) \cup (DOMAIN edges') :
          LET before == CopiesIn(r, edges)
              after == CopiesIn(r, edges')
          IN before # after
             => \/ /\ before = 0 /\ after = 1
                   /\ \E c \in Calls :
                        /\ JoinUpdateStep(c)
                        /\ r = <<calls[c].eventId, calls[c].user.id>>
                \/ /\ before = 1 /\ after = 0
                   /\ \E c \in Calls :
                        /\ LeaveUpdateStep(c)
                        /\ r = <<calls[c].eventId, calls[c].user.id>>
    /\ \A c \in Calls :
          /\ JoinUpdateStep(c)
             => CopiesIn(<<calls[c].eventId, calls[c].user.id>>, edges') = 1
          /\ LeaveUpdateStep(c)
             => CopiesIn(<<calls[c].eventId, calls[c].user.id>>, edges') = 0

\* C20: a (user, event) pair always has one membership row or none; each
\* change of a pair is one store step, of a joinEvent of that pair from
\* NotMember to Member or of a leaveEvent of that pair from Member to
\* NotMember, so what any query reads is one of the two states; and the
\* cycle repeats (join, leave, join ends in Member).
C20_MemberOrNotMember ==
    /\ [] TwoMembershipStates
    /\ [][MembershipTransitions]_vars

C20_Witness ==
    /\ IsJoin(1) /\ IsLeave(2) /\ IsJoin(3)
    /\ Done(1) /\ Done(2) /\ Done(3)
    /\ calls[1].wrote = "added" /\ calls[1].wroteAt = 1
    /\ calls[2].wrote = "removed" /\ calls[2].wroteAt = 2
    /\ calls[3].wrote = "added" /\ calls[3].wroteAt = 3
    /\ EdgeCount(PairEvent, PairEmail) = 1
    /\ PairEmail \in Emails(calls[3].result.attendees)
    /\ PairEmail \notin Emails(calls[2].result.attendees)

\* The clients whose socket is connected and in the room of the event.
SubscribedTo(eventId) ==
    {k \in Clients : sockets[k].connected /\ <<"event-", eventId>> \in sockets[k].rooms}

\* C11: a userJoined or userLeft message for an event is delivered to
\* exactly the clients in the event's room at the step of the emit, and an
\* eventUpdated message to exactly the connected clients, in a room or
\* not; the recipients of a message already emitted never change, so a
\* client that subscribes later does not get it.
C11_DeliveredToSubscribersAtEmit ==
    [][/\ Len(emitted') >= Len(emitted)
       /\ \A i \in DOMAIN emitted : emitted'[i] = emitted[i]
       /\ \A i \in (DOMAIN emitted') \ (DOMAIN emitted) :
            IF emitted'[i].type \in {"userJoined", "userLeft"}
            THEN emitted'[i].to = SubscribedTo(emitted'[i].eventId)
            ELSE /\ emitted'[i].type = "eventUpdated"
                 /\ emitted'[i].to = {k \in Clients : sockets[k].connected}]_vars

C11_Witness ==
    \E i \in DOMAIN emitted : \E j \in DOMAIN emitted :
        /\ emitted[i].type = "userJoined" /\ emitted[i].eventId = "e1"
        /\ emitted[i].to = {1}
        /\ emitted[j].type = "eventUpdated" /\ emitted[j].by = emitted[i].by
        /\ emitted[j].to = {1, 2}
        /\ sockets[2].connected /\ sockets[2].rooms = {EventRoom("e1")}

\* Position in the emission order of the one message of that type that
\* request c emitted (0 when it emitted none).
EmitIndex(c, type) ==
    IF EmittedBy(c, type) = {} THEN 0 ELSE CHOOSE i \in EmittedBy(c, type) : TRUE

\* C12: when a joinEvent added the row of a pair and a leaveEvent, possibly
\* of another concurrent request, removed that row afterwards, every client
\* that was sent both the userJoined and the userLeft was sent the
\* userJoined first.
C12_JoinedBeforeLeft ==
    \A c \in Calls : \A d \in Calls :
        (/\ IsJoin(c) /\ IsLeave(d) /\ SamePair(c, d)
         /\ Done(c) /\ Done(d)
         /\ calls[c].wrote = "added" /\ calls[d].wrote = "removed"
         /\ calls[c].wroteAt < calls[d].wroteAt)
        => \A k \in Clients :
              (/\ k \in emitted[EmitIndex(c, "userJoined")].to
               /\ k \in emitted[EmitIndex(d, "userLeft")].to)
              => EmitIndex(c, "userJoined") < EmitIndex(d, "userLeft")

\* C13: a joinEvent or leaveEvent whose update changed the membership row
\* returns success to its caller, whether the emits after the update went
\* out or threw.
C13_BroadcastFailureNotReturned ==
    \A c \in Calls :
        (/\ IsJoin(c) \/ IsLeave(c)
         /\ Done(c)
         /\ calls[c].wrote \in {"added", "removed"})
        => calls[c].result.ok

\* The committed change of a request stays: the row a joinEvent added is
\* there, and the row a leaveEvent removed is gone, until another request
\* of the pair writes.
CommittedChangeStays ==
    \A c \in Calls :
        (/\ Done(c) /\ calls[c].wrote \in {"added", "removed"}
         /\ \A d \in Calls : d # c => calls[d].wroteAt < calls[c].wroteAt)
        => CopiesIn(<<calls[c].eventId, calls[c].user.id>>, edges)
             = IF calls[c].wrote = "added" THEN 1 ELSE 0

\* C14: every joinEvent and leaveEvent request that has started returns,
\* whatever the clients do with their sockets: connected or not, in the
\* room or not, and with no step of theirs required.
C14_MutationReturns ==
    \A c \in 1..MaxRtCalls :
        (calls[c].pc \notin {"idle", "done"}) ~> Done(c)

C14_Witness ==
    \E c \in Calls : \E i \in DOMAIN emitted :
        /\ IsJoin(c) /\ Done(c) /\ calls[c].wrote = "added" /\ calls[c].result.ok
        /\ emitted[i].by = c /\ emitted[i].type = "userJoined"
        /\ emitted[i].to = {}
        /\ \A k \in Clients : ~sockets[k].connected

-----------------------------------------------------------------------------
\* A disconnected client is in no room.
DisconnectedInNoRoom ==
    \A k \in Clients : ~sockets[k].connected => sockets[k].rooms = {}

\* After leaveEventRoom(E) the client is not in E's room, and after a
\* disconnect it is not connected.
UnsubscribeTakesEffect ==
    \A k \in Clients :
        /\ \A eventId \in RoomIdArgs :
              LeaveEventRoom(k, eventId)
              => /\ sockets'[k].connected
                 /\ EventRoom(eventId) \notin sockets'[k].rooms
        /\ SocketDisconnect(k) => ~sockets'[k].connected

\* A message emitted in this step: userJoined and userLeft go to no client
\* outside the event's room, eventUpdated goes to every connected client.
EmitRespectsSubscriptions ==
    \A i \in (DOMAIN emitted') \ (DOMAIN emitted) : \A k \in Clients :
        /\ (emitted'[i].type \in {"userJoined", "userLeft"} /\ k \in emitted'[i].to)
           => /\ sockets[k].connected
              /\ <<"event-", emitted'[i].eventId>> \in sockets[k].rooms
        /\ (emitted'[i].type = "eventUpdated" /\ sockets[k].connected)
           => k \in emitted'[i].to

\* A step that changes the subscriptions changes those of one client, and
\* while that client stays connected, its membership of one room only.
OneSubscriptionChanges ==
    \A k \in Clients :
        sockets'[k] # sockets[k]
        => /\ \A j \in Clients : j # k => sockets'[j] = sockets[j]
           /\ (sockets[k].connected /\ sockets'[k].connected)
              => Cardinality((sockets'[k].rooms \ sockets[k].rooms)
                             \cup (sockets[k].rooms \ sockets'[k].rooms)) = 1

-----------------------------------------------------------------------------
\* The part of an email before its first '@'.
BeforeAt(email) ==
    LET n == CHOOSE n \in DOMAIN email :
                 email[n] = "@" /\ \A m \in 1..(n - 1) : email[m] # "@"
    IN SubSeq(email, 1, n - 1)

\* s with every character that is not a letter or a digit left out.
LettersAndDigits(s) ==
    SelectSeq(s, LAMBDA ch : ch \in {"a", "b", "n", "x", "A", "U", "s", "e", "r"})

\* The request inserted the User row it holds.
Created(c) == "createUser" \in calls[c].ops

\* C22: a User row inserted by me has as name the letters and digits of the
\* email's local part, or "User" when there are none; a User row inserted
\* by joinEvent has the local part as it is.  A row, once inserted, keeps
\* its name, so for an unseen email the stored name is decided by which of
\* the two requests inserts the row.
C22_NameByCreator ==
    /\ \A c \in Calls :
          (Created(c) /\ calls[c].op = "me")
          => /\ calls[c].user \in users
             /\ calls[c].user.name =
                  IF LettersAndDigits(BeforeAt(calls[c].email)) = << >>
                  THEN <<"U", "s", "e", "r">>
                  ELSE LettersAndDigits(BeforeAt(calls[c].email))
    /\ \A c \in Calls :
          (Created(c) /\ IsJoin(c))
          => /\ calls[c].user \in users
             /\ calls[c].user.name = BeforeAt(calls[c].email)
    /\ \A c \in Calls :
          (Done(c) /\ calls[c].op = "me" /\ calls[c].result.ok)
          => calls[c].result.user \in users

\* 'b.@x' was first named by a joinEvent and has the name 'b.', which a
\* later me returns; '.@x' was first named by me and has the name 'User'.
C22_Witness ==
    \E c \in Calls : \E d \in Calls : \E q \in Calls :
        /\ IsJoin(c) /\ Created(c) /\ calls[c].email = BobEmail
        /\ calls[c].user.name = <<"b", ".">>
        /\ calls[d].op = "me" /\ Done(d) /\ calls[d].email = BobEmail
        /\ calls[d].result.user.name = <<"b", ".">>
        /\ calls[q].op = "me" /\ Created(q) /\ calls[q].email = DotEmail
        /\ calls[q].user.name = <<"U", "s", "e", "r">>

\* The other order: me names 'b.@x' first and the stored name is 'b'.
C22_MeFirst ==
    \E c \in Calls : \E d \in Calls :
        /\ calls[c].op = "me" /\ Created(c) /\ calls[c].email = BobEmail
        /\ calls[c].user.name = <<"b">>
        /\ IsJoin(d) /\ Done(d) /\ calls[d].email = BobEmail
        /\ calls[d].user.name = <<"b">>

-----------------------------------------------------------------------------
\* C23: when an eventUpdated for event E is emitted while a client has the
\* detail screen of E open (its socket connected, so the message is sent to
\* it), the attendee list on that screen becomes the message's list.
C23_DetailScreenFollowsBroadcast ==
    [][\A i \in (DOMAIN emitted') \ (DOMAIN emitted) : \A k \in Clients :
          (/\ emitted'[i].type = "eventUpdated"
           /\ k \in emitted'[i].to
           /\ screens[k].open /\ screens[k].eventId = emitted'[i].eventId)
          => screens'[k].shown = emitted'[i].attendees]_vars

\* C24: when a userJoined or userLeft for event E is emitted while a client
\* has the detail screen of E open, the message is sent to that client: the
\* screen has put the client's socket into E's room.
C24_DetailScreenSubscribed ==
    [][\A i \in (DOMAIN emitted') \ (DOMAIN emitted) : \A k \in Clients :
          (/\ emitted'[i].type \in {"userJoined", "userLeft"}
           /\ screens[k].open /\ screens[k].eventId = emitted'[i].eventId)
          => /\ EventRoom(emitted'[i].eventId) \in sockets[k].rooms
             /\ k \in emitted'[i].to]_vars

-----------------------------------------------------------------------------
\* The three refusals of joinEvent and leaveEvent.
Refusals == {InvalidInput, NotFound, UserNotFound}

Refused(c) ==
    /\ IsJoin(c) \/ IsLeave(c)
    /\ Done(c) /\ ~calls[c].result.ok /\ calls[c].result.error \in Refusals

\* A refused request has made no store write and no emit; a request on an
\* event that is not stored is refused with 'Event not found' whether or
\* not its user exists.
RefusedWroteNothing ==
    \A c \in Calls :
        /\ Refused(c)
           => /\ calls[c].ops \cap (WriteOps \cup {"createUserFailed"}) = {}
              /\ calls[c].wrote = "none"
              /\ calls[c].user = NoUser \/ calls[c].user \in users
              /\ \A i \in DOMAIN emitted : emitted[i].by # c
        /\ (/\ IsJoin(c) \/ IsLeave(c)
            /\ Done(c)
            /\ calls[c].eventId # "" /\ calls[c].email # EmptyStr
            /\ ~EventExists(calls[c].eventId))
           => /\ calls[c].result = Failure(NotFound)
              /\ calls[c].ops = {"findEvent"}

\* A step of a request that is not one of its recorded writes changes no
\* table, and a step that ends a request in a refusal changes no table and
\* emits nothing.
OnlyRecordedWritesChangeStore ==
    \A c \in Calls :
        /\ (/\ calls'[c] # calls[c]
            /\ calls'[c].ops \cap WriteOps = calls[c].ops \cap WriteOps)
           => /\ users' = users /\ events' = events /\ edges' = edges
        /\ (/\ calls'[c] # calls[c] /\ calls'[c].pc = "done"
            /\ calls'[c].result.error \in Refusals)
           => /\ users' = users /\ events' = events /\ edges' = edges
              /\ emitted' = emitted

\* C25: a joinEvent or leaveEvent that returns the input error, 'Event not
\* found' or 'User not found' has changed no row of any table and emitted
\* nothing; a joinEvent on a missing event with an unseen email creates no
\* User, and a leaveEvent with event and user both missing returns 'Event
\* not found'.
C25_RefusalsChangeNothing ==
    /\ [] RefusedWroteNothing
    /\ [][OnlyRecordedWritesChangeStore]_vars

C25_Witness ==
    \E c \in Calls : \E d \in Calls :
        /\ IsJoin(c) /\ Done(c) /\ calls[c].eventId = "zz"
        /\ calls[c].email = BobEmail /\ calls[c].result.error = NotFound
        /\ IsLeave(d) /\ Done(d) /\ calls[d].eventId = "zz"
        /\ calls[d].email = BobEmail /\ calls[d].result.error = NotFound
        /\ users = {SeedAlice} /\ edges = SeedEdges /\ emitted = << >>

\* The other two refusals: a leaveEvent of an unseen email on a stored
\* event, and a joinEvent with an empty email.
C25_OtherRefusals ==
    \E c \in Calls : \E d \in Calls :
        /\ IsLeave(c) /\ Done(c) /\ calls[c].result.error = UserNotFound
        /\ IsJoin(d) /\ Done(d) /\ calls[d].result.error = InvalidInput
        /\ users = {SeedAlice} /\ edges = SeedEdges /\ emitted = << >>

-----------------------------------------------------------------------------
\* The userJoined and userLeft messages emitted for one pair, in order.
PairMessages(eventId, email) ==
    SelectSeq(emitted, LAMBDA m : /\ m.type \in {"userJoined", "userLeft"}
                                  /\ m.eventId = eventId
                                  /\ m.user.email = email)

\* The pair has a row in the seeded store.
InitiallyMember(eventId, email) ==
    \E u \in {SeedAlice} : u.email = email /\ BagIn(<<eventId, u.id>>, SeedEdges)

\* Every userJoined or userLeft was emitted by a request whose update
\* added or removed the row.
EveryBroadcastIsAnEdgeChange ==
    \A c \in Calls :
        (EmittedBy(c, "userJoined") \cup EmittedBy(c, "userLeft") # {})
        => calls[c].wrote \in {"added", "removed"}

\* For every pair the userJoined and userLeft messages alternate, the first
\* one being userJoined when the pair started as NotMember and userLeft
\* when it started as Member.
BroadcastsAlternate ==
    \A eventId \in EventIdArgs : \A email \in UserEmailArgs :
        LET msgs == PairMessages(eventId, email)
        IN /\ \A i \in 1..(Len(msgs) - 1) : msgs[i].type # msgs[i + 1].type
           /\ Len(msgs) > 0
              => msgs[1].type = IF InitiallyMember(eventId, email)
                                THEN "userLeft" ELSE "userJoined"

\* C26: under any interleaving, every userJoined and userLeft corresponds
\* to a row the emitting request added or removed, and per pair the two
\* kinds alternate starting from the pair's initial state; so two joinEvent
\* calls racing on one non-member pair emit one userJoined between them.
C26_BroadcastsMatchEdgeChanges ==
    /\ EveryBroadcastIsAnEdgeChange
    /\ BroadcastsAlternate

-----------------------------------------------------------------------------
\* Positions of the eventUpdated messages for the event.
UpdatesOf(eventId) ==
    {i \in DOMAIN emitted :
        emitted[i].type = "eventUpdated" /\ emitted[i].eventId = eventId}

\* No joinEvent or leaveEvent on the event is in flight.
NoneInFlightOn(eventId) ==
    \A c \in Calls :
        (/\ IsJoin(c) \/ IsLeave(c)
         /\ calls[c].eventId = eventId)
        => Done(c)

\* C27: once no mutation on an event is in flight, the attendee list of the
\* last eventUpdated emitted for the event is the event's attendee set in
\* the store.
C27_LastBroadcastIsCurrent ==
    \A e \in events :
        (NoneInFlightOn(e.id) /\ UpdatesOf(e.id) # {})
        => LET last == CHOOSE i \in UpdatesOf(e.id) :
                           \A j \in UpdatesOf(e.id) : j <= i
           IN emitted[last].attendees
                = {u \in users : CopiesIn(<<e.id, u.id>>, edges) >= 1}

-----------------------------------------------------------------------------
\* C28: under any interleaving, a completed joinEvent with non-empty
\* arguments on a stored event has returned success with the user among
\* the attendees, and a completed me with a valid email has returned
\* success, also when they raced on an email no User had.
C28_JoinNeverFails ==
    /\ \A c \in Calls :
          (IsJoin(c) /\ OnStoredEvent(c) /\ Done(c))
          => /\ calls[c].result.ok
             /\ calls[c].email \in Emails(calls[c].result.attendees)
    /\ \A c \in Calls : \A d \in Calls :
          (/\ c # d /\ IsJoin(c) /\ OnStoredEvent(c)
           /\ calls[d].op = "me" /\ calls[d].email = calls[c].email
           /\ Done(c) /\ Done(d))
          => calls[d].result.ok


-----------------------------------------------------------------------------
(* C29 *)

\* The request took the path that runs the update of the join table.
TookWritePath(c) == calls[c].ops \cap {"connect", "disconnect"} # {}

\* The request has returned an event to its caller.
ReturnedEvent(c) == Done(c) /\ calls[c].result.ok

\* C29: under any interleaving, the attendees of a successful joinEvent
\* response include the joining user and the attendees of a successful
\* leaveEvent response do not include the leaving user, whether the request
\* ran the update or returned the snapshot read at its start.
C29_ResponseReflectsOwnRequest ==
    \A c \in Calls :
        /\ (IsJoin(c) /\ ReturnedEvent(c))
           => calls[c].email \in Emails(calls[c].result.attendees)
        /\ (IsLeave(c) /\ ReturnedEvent(c))
           => calls[c].email \notin Emails(calls[c].result.attendees)

\* A joinEvent that ran the update and a leaveEvent of the same user on the
\* same event that returned its snapshot have both returned.
C29_Witness ==
    \E c \in Calls : \E d \in Calls :
        /\ IsJoin(c) /\ ReturnedEvent(c) /\ TookWritePath(c)
        /\ IsLeave(d) /\ ReturnedEvent(d) /\ ~TookWritePath(d)
        /\ calls[d].eventId = calls[c].eventId
        /\ calls[d].email = calls[c].email

\* A joinEvent that returned its snapshot and a leaveEvent of the same user
\* on the same event that ran the update have both returned.
C29_NoOpJoin ==
    \E c \in Calls : \E d \in Calls :
        /\ IsJoin(c) /\ ReturnedEvent(c) /\ ~TookWritePath(c)
        /\ IsLeave(d) /\ ReturnedEvent(d) /\ TookWritePath(d)
        /\ calls[d].eventId = calls[c].eventId
        /\ calls[d].email = calls[c].email

=============================================================================
